---- MODULE Spec2Model ----
(***************************************************************************)
(* Model of the expense-tracker bot: the storage access layer of           *)
(* src/db_utils.py (connection pool, insert_tx, get_transactions, init_db) *)
(* and the handlers of src/bot.py (the /add conversation, /quick, /list).  *)
(*                                                                         *)
(* Texts are tuples of one-character strings, so that the code's string    *)
(* operations (strip, re.sub, the QUICK_RE match, strptime, isoformat)     *)
(* are computed, not assumed.  Dates are integers yyyymmdd.  Amounts are   *)
(* decimals [m, e] standing for m / 10^e.                                  *)
(***************************************************************************)
EXTENDS Integers, Sequences, FiniteSets, Bags, TLC

(***************************************************************************)
(* Bounds of the model.                                                    *)
(***************************************************************************)
\* at most this many rows are ever stored
MaxRows == 2
\* at most this many storage operations are in flight in Spec and SpecStore
MaxOps == 2
\* at most this many /add flows are started
MaxFlows == 2
\* at most this many storage operations are in flight in SpecPool
MaxCallers == 11

(***************************************************************************)
(* Program constants.                                                      *)
(***************************************************************************)
\* pool.ThreadedConnectionPool(1, 10, conn_string)
MaxConn == 10
\* get_transactions(user_id, limit = 10), and n = 10 in list_cmd
DefaultLimit == 10

(***************************************************************************)
(* Characters and texts.                                                   *)
(***************************************************************************)
DigitChars == <<"0", "1", "2", "3", "4", "5", "6", "7", "8", "9">>

Digits == {DigitChars[i] : i \in 1..10}

Letters ==
    {"a", "b", "c", "d", "e", "f", "g", "h", "i", "j", "k", "l", "m", "n", "o",
     "p", "q", "r", "s", "t", "u", "v", "w", "x", "y", "z", "R", "_"}

\* \s of the re module
WS == {" ", "\t", "\n"}

\* [\w-] of QUICK_RE
WordChars == Digits \cup Letters \cup {"-"}

\* [\d,] of QUICK_RE
AmountChars == Digits \cup {","}

\* the characters re.sub(r'[^\d\.\-]', '', text) keeps
NumericChars == Digits \cup {".", "-"}

DigitOf(c) == (CHOOSE i \in 1..10 : DigitChars[i] = c) - 1

SetMin(S) == CHOOSE x \in S : \A y \in S : x <= y

SetMax(S) == CHOOSE x \in S : \A y \in S : y <= x

\* str.strip()
Strip(t) ==
    LET idx == {i \in 1..Len(t) : t[i] \notin WS}
    IN  IF idx = {} THEN <<>> ELSE SubSeq(t, SetMin(idx), SetMax(idx))

\* the length of the longest prefix of t made of characters of S (a greedy x+ or x*)
PrefixLen(t, S) ==
    LET bad == {i \in 1..Len(t) : t[i] \notin S}
    IN  IF bad = {} THEN Len(t) ELSE SetMin(bad) - 1

Drop(t, n) == SubSeq(t, n + 1, Len(t))

Keep(t, S) == SelectSeq(t, LAMBDA c : c \in S)

StartsWith(t, p) == Len(t) >= Len(p) /\ SubSeq(t, 1, Len(p)) = p

RECURSIVE DigitsVal(_)
DigitsVal(ds) ==
    IF ds = <<>> THEN 0
    ELSE 10 * DigitsVal(SubSeq(ds, 1, Len(ds) - 1)) + DigitOf(ds[Len(ds)])

RECURSIVE RemoveAll(_, _)
\* str.replace(sub, ''): every non-overlapping occurrence, left to right
RemoveAll(t, sub) ==
    IF sub = <<>> \/ Len(t) < Len(sub) THEN t
    ELSE IF StartsWith(t, sub) THEN RemoveAll(Drop(t, Len(sub)), sub)
    ELSE <<t[1]>> \o RemoveAll(Tail(t), sub)

\* the length of the longest prefix of t with no character of S (a greedy [^x]+)
PrefixLenNot(t, S) ==
    LET hit == {i \in 1..Len(t) : t[i] \in S}
    IN  IF hit = {} THEN Len(t) ELSE SetMin(hit) - 1

\* the index of the first occurrence of sub in t, 0 when there is none
Find(t, sub) ==
    LET at == {i \in 1..Len(t) : StartsWith(Drop(t, i - 1), sub)}
    IN  IF at = {} THEN 0 ELSE SetMin(at)

\* str.replace(sub, '', 1)
RemoveFirst(t, sub) ==
    LET i == Find(t, sub)
    IN  IF i = 0 THEN t ELSE SubSeq(t, 1, i - 1) \o Drop(t, i - 1 + Len(sub))

RECURSIVE SplitWS(_)
\* str.split(): the maximal runs of non-whitespace characters
SplitWS(t) ==
    LET s == Drop(t, PrefixLen(t, WS))
        n == PrefixLenNot(s, WS)
    IN  IF s = <<>> THEN <<>>
        ELSE <<SubSeq(s, 1, n)>> \o SplitWS(Drop(s, n))

(***************************************************************************)
(* Numbers: float(), and the REAL column.                                  *)
(***************************************************************************)
\* An optional value (Python's None, a raised exception in place of a result)
\* is a sequence of at most one element.
None == <<>>

Some(v) == <<v>>

Get(o) == o[1]

RECURSIVE Normalise(_)
Normalise(v) ==
    IF v.e > 0 /\ v.m % 10 = 0 THEN Normalise([m |-> v.m \div 10, e |-> v.e - 1])
    ELSE v

\* float(s) for s made of digits, '.' and '-': None stands for ValueError
PyFloat(s) ==
    LET neg  == s # <<>> /\ s[1] = "-"
        body == IF neg THEN Tail(s) ELSE s
        dots == {i \in 1..Len(body) : body[i] = "."}
        ok   == /\ \A i \in 1..Len(body) : body[i] \in Digits \cup {"."}
                /\ Cardinality(dots) <= 1
                /\ \E i \in 1..Len(body) : body[i] \in Digits
        all  == Keep(body, Digits)
        e    == IF dots = {} THEN 0 ELSE Len(body) - SetMin(dots)
        m    == DigitsVal(all)
    IN  IF ok THEN Some(Normalise([m |-> IF neg THEN 0 - m ELSE m, e |-> e])) ELSE None

\* 2^24: every integer up to it is a REAL (float4) value
RealExact == 16777216

Abs(x) == IF x < 0 THEN 0 - x ELSE x

\* The value a REAL column keeps of v (amount REAL NOT NULL).  Between 2^24 and
\* 2^25 the float4 values are the even integers, ties going to the even
\* mantissa; decimals of at most six significant digits come back as written.
ToReal(v) ==
    LET a == Abs(v.m)
        q == a \div 2
        r == IF a % 2 = 0 THEN a ELSE IF q % 2 = 0 THEN 2 * q ELSE 2 * (q + 1)
    IN  IF v.e = 0 /\ a > RealExact
        THEN [m |-> IF v.m < 0 THEN 0 - r ELSE r, e |-> 0]
        ELSE v

(***************************************************************************)
(* Dates.                                                                  *)
(***************************************************************************)
MkDate(y, m, d) == y * 10000 + m * 100 + d

IsLeap(y) == (y % 4 = 0 /\ y % 100 # 0) \/ y % 400 = 0

DaysInMonth(y, m) ==
    IF m = 2 THEN (IF IsLeap(y) THEN 29 ELSE 28)
    ELSE IF m \in {4, 6, 9, 11} THEN 30 ELSE 31

\* datetime.strptime(s, "%Y-%m-%d").date(): None stands for ValueError
Strptime(s) ==
    LET dashes == {i \in 1..Len(s) : s[i] = "-"}
        d1 == SetMin(dashes)
        d2 == SetMax(dashes)
        ys == SubSeq(s, 1, d1 - 1)
        ms == SubSeq(s, d1 + 1, d2 - 1)
        ds == SubSeq(s, d2 + 1, Len(s))
        y  == DigitsVal(ys)
        m  == DigitsVal(ms)
        d  == DigitsVal(ds)
    IN  IF /\ Cardinality(dashes) = 2
           /\ \A i \in 1..Len(s) : s[i] \in Digits \cup {"-"}
           /\ Len(ys) = 4 /\ Len(ms) \in 1..2 /\ Len(ds) \in 1..2
           /\ y >= 1 /\ m \in 1..12 /\ d \in 1..DaysInMonth(y, m)
        THEN Some(MkDate(y, m, d))
        ELSE None

Pad(n, w) == [i \in 1..w |-> DigitChars[((n \div (10 ^ (w - i))) % 10) + 1]]

\* date.isoformat() and str(date)
Isoformat(d) ==
    Pad(d \div 10000, 4) \o <<"-">> \o Pad((d \div 100) % 100, 2) \o <<"-">> \o Pad(d % 100, 2)

\* dateutil's parser.parse(txt, fuzzy=True).date() on the texts the model
\* enters: a text that holds an ISO date and nothing else gives that date, a
\* text with no digit, month name or weekday name raises (None).
DateutilParse(txt) == Strptime(Strip(txt))

\* date.today() and datetime.now().date()
Today == MkDate(2025, 1, 15)

(***************************************************************************)
(* The texts the model sends to the bot.                                   *)
(***************************************************************************)
\* ' food'
TxtFood == <<" ", "f", "o", "o", "d">>

\* 'petrol'
TxtPetrol == <<"p", "e", "t", "r", "o", "l">>

\* 'abc'
TxtAbc == <<"a", "b", "c">>

\* 'Rs 500'
TxtRs500 == <<"R", "s", " ", "5", "0", "0">>

\* '16777217'
TxtBig == <<"1", "6", "7", "7", "7", "2", "1", "7">>

\* 'not a date'
TxtNotADate == <<"n", "o", "t", " ", "a", " ", "d", "a", "t", "e">>

\* '2025-01-14'
TxtJan14 == <<"2", "0", "2", "5", "-", "0", "1", "-", "1", "4">>

\* '2025-01-16'
TxtJan16 == <<"2", "0", "2", "5", "-", "0", "1", "-", "1", "6">>

\* 'lunch '
TxtLunch == <<"l", "u", "n", "c", "h", " ">>

\* '/quick food 250 lunch'
TxtQuickToday ==
    <<"/", "q", "u", "i", "c", "k", " ", "f", "o", "o", "d", " ", "2", "5", "0", " ",
      "l", "u", "n", "c", "h">>

\* '/quick food'
TxtQuickNoAmount == <<"/", "q", "u", "i", "c", "k", " ", "f", "o", "o", "d">>

\* '/quick food , lunch'
TxtQuickCommas ==
    <<"/", "q", "u", "i", "c", "k", " ", "f", "o", "o", "d", " ", ",", " ", "l", "u",
      "n", "c", "h">>

\* '/quick fuel 1,200.50 --desc "gas" 2025-01-16'
TxtQuickFull ==
    <<"/", "q", "u", "i", "c", "k", " ", "f", "u", "e", "l", " ", "1", ",", "2", "0",
      "0", ".", "5", "0", " ", "-", "-", "d", "e", "s", "c", " ", "\"", "g", "a",
      "s", "\"", " ", "2", "0", "2", "5", "-", "0", "1", "-", "1", "6">>

\* '/list'
TxtList == <<"/", "l", "i", "s", "t">>

\* '/list 1'
TxtList1 == <<"/", "l", "i", "s", "t", " ", "1">>

\* '/quick'
CmdQuick == <<"/", "q", "u", "i", "c", "k">>

\* '--desc'
DescFlag == <<"-", "-", "d", "e", "s", "c">>

CategoryTexts == {TxtFood, TxtPetrol}

AmountTexts == {TxtAbc, TxtRs500}

DateTexts == {TxtNotADate, TxtJan14}

DescTexts == {TxtLunch}

QuickTexts == {TxtQuickToday, TxtQuickNoAmount, TxtQuickCommas, TxtQuickFull}

ListTexts == {TxtList, TxtList1}

(***************************************************************************)
(* The parsers of bot.py.                                                  *)
(***************************************************************************)
\* amt_handler: float(re.sub(r'[^\d\.\-]', '', text)), None when float raises
ParseAmount(text) == PyFloat(Keep(text, NumericChars))

\* QUICK_RE.match(payload): None when there is no match, else the groups.
\* Each greedy run is maximal: the classes [\w-], \s and [\d,] that follow one
\* another are disjoint and the tail \s*(.*) matches anything, so no shorter
\* run can make a failed match succeed.
QuickMatch(payload) ==
    LET n1 == PrefixLen(payload, WordChars)
        p2 == Drop(payload, n1)
        n2 == PrefixLen(p2, WS)
        p3 == Drop(p2, n2)
        n3 == PrefixLen(p3, AmountChars)
        p4 == Drop(p3, n3)
        nf == IF Len(p4) >= 2 /\ p4[1] = "." /\ p4[2] \in Digits
              THEN 1 + PrefixLen(Tail(p4), Digits) ELSE 0
        p5 == Drop(p4, nf)
        p6 == Drop(p5, PrefixLen(p5, WS))
    IN  IF n1 >= 1 /\ n2 >= 1 /\ n3 >= 1
        THEN Some([category |-> SubSeq(payload, 1, n1),
                   amount   |-> SubSeq(p3, 1, n3 + nf),
                   rest     |-> SubSeq(p6, 1, PrefixLenNot(p6, {"\n"}))])
        ELSE None

\* re.search(r'--desc\s+"([^"]+)"', rest) tried at position i
DescMatchAt(rest, i) ==
    LET t  == Drop(rest, i - 1)
        a  == Drop(t, Len(DescFlag))
        nw == PrefixLen(a, WS)
        b  == Drop(a, nw)
        c  == Drop(b, 1)
        nq == PrefixLenNot(c, {"\""})
    IN  IF /\ StartsWith(t, DescFlag)
           /\ nw >= 1
           /\ b # <<>> /\ b[1] = "\""
           /\ nq >= 1 /\ Len(c) > nq
        THEN Some([whole |-> SubSeq(t, 1, Len(DescFlag) + nw + nq + 2),
                   desc  |-> SubSeq(c, 1, nq)])
        ELSE None

\* re.search(r'--desc\s+"([^"]+)"', rest): the leftmost match, None when none
DescSearch(rest) ==
    LET at == {i \in 1..Len(rest) : DescMatchAt(rest, i) # None}
    IN  IF at = {} THEN None ELSE DescMatchAt(rest, SetMin(at))

\* int(s), None when it raises
PyInt(s) ==
    LET neg  == s # <<>> /\ s[1] = "-"
        body == IF neg THEN Tail(s) ELSE s
    IN  IF body # <<>> /\ \A i \in 1..Len(body) : body[i] \in Digits
        THEN Some(IF neg THEN 0 - DigitsVal(body) ELSE DigitsVal(body))
        ELSE None

\* list_cmd: n = 10, replaced by int(parts[1]) when there is one and it parses
ListLimit(text) ==
    LET parts == SplitWS(text)
    IN  IF Len(parts) >= 2 /\ PyInt(parts[2]) # None THEN Get(PyInt(parts[2]))
        ELSE DefaultLimit

\* What quick_cmd makes of the message text: "usage" when QUICK_RE does not
\* match, "raise" when float() raises on the amount, else the arguments of
\* insert_tx.
QuickParse(text) ==
    LET payload == Strip(RemoveFirst(text, CmdQuick))
        mo      == QuickMatch(payload)
        m       == Get(mo)
        amount  == PyFloat(RemoveAll(m.amount, <<",">>))
        rest0   == Strip(m.rest)
        dm      == DescSearch(rest0)
        rest    == IF dm = None THEN rest0 ELSE RemoveAll(rest0, Get(dm).whole)
        parsed  == DateutilParse(rest)
    IN  IF mo = None THEN [kind |-> "usage"]
        ELSE IF amount = None THEN [kind |-> "raise"]
        ELSE [kind        |-> "insert",
              category    |-> m.category,
              amount      |-> Get(amount),
              date_str    |-> Isoformat(IF parsed = None THEN Today ELSE Get(parsed)),
              description |-> IF dm = None THEN None ELSE Some(Get(dm).desc)]

(***************************************************************************)
(* The state.                                                              *)
(***************************************************************************)
Users == {1, 2}

\* The conversations of the ConversationHandler, keyed by (chat id, user id)
\* (per_chat and per_user are left at True): user 1 talks to the bot in two
\* chats, user 2 in one.
Keys == {<<1, 1>>, <<2, 1>>, <<1, 2>>}

UserOf(k) == k[2]

\* CAT, AMT, DTE, DESC = range(4), and ConversationHandler.END
NonTerminal == {"CAT", "AMT", "DTE", "DESC"}

MsgEnterCategory == "Enter category (e.g. food, petrol, creditcard, emi):"

MsgEnterAmount == "Enter amount (numbers):"

MsgBadAmount == "Couldn't parse amount. Enter numeric amount:"

MsgEnterDate == "Enter date (YYYY-MM-DD) or text like 'today' or '2025-11-13':"

MsgBadDate == "Couldn't parse date. Please try again:"

MsgEnterDesc == "Enter description (optional):"

MsgSaved == "Saved"

MsgCancelled == "Cancelled."

MsgUsage == "Use: /quick <category> <amount> [free text] --desc \"...\""

MsgSavedQuick == "Saved: {category} {amount} on {date}"

MsgNoTx == "No transactions yet."

MsgListing == "{dt} | {cat} | {amt} | {desc} (id:{tid})"

NoPending == [category |-> None, amount |-> None, date |-> None]

NoOrigin == [handler |-> "none", key |-> <<>>, was |-> "none", input |-> <<>>]

NoOp ==
    [fn |-> "none", pc |-> "none", from |-> NoOrigin, user_id |-> 0,
     category |-> <<>>, amount |-> [m |-> 0, e |-> 0], date_str |-> <<>>,
     description |-> None, limit |-> 0, next_id |-> 0, raised |-> "none",
     result |-> <<>>, seen |-> None, start_date |-> None, totals |-> {}]

NoLast ==
    [handler |-> "none", key |-> <<>>, was |-> "none", input |-> <<>>,
     raised |-> "none", stored |-> {}, reply |-> "", op |-> NoOp,
     accepted |-> NoPending, persisted |-> {}]

VARIABLES rows, used, ops, conv, user_data, last, accepted, persisted, lastCommit, flows

\* rows       the transactions table: a set of rows
\* used       the number of connections checked out of the pool
\* ops        the bag of db_utils coroutines in flight, each with its position
\* conv       the state of each conversation of the ConversationHandler
\* user_data  context.user_data of each user: the pending fields
\* last       the handler or db_utils call that returned last: its input, the
\*            exception it raised, the rows it stored, the message it sent
\* accepted   the fields the running /add flow of each conversation accepted
\* persisted  the rows written on behalf of the running /add flow of each
\*            conversation
\* lastCommit the row committed last (an operation that fetches notes in its
\*            field seen which row that was when it fetched)
\* flows      the number of /add flows started
vars == <<rows, used, ops, conv, user_data, last, accepted, persisted, lastCommit, flows>>

Init ==
    /\ rows = {}
    /\ used = 0
    /\ ops = EmptyBag
    /\ conv = [k \in Keys |-> "END"]
    /\ user_data = [u \in Users |-> NoPending]
    /\ last = NoLast
    /\ accepted = [k \in Keys |-> NoPending]
    /\ persisted = [k \in Keys |-> {}]
    /\ lastCommit = None
    /\ flows = 0

InFlight == BagToSet(ops)

\* an update of a conversation waits for the handler that is running for it
Busy(k) == \E op \in InFlight : op.from.key = k

InsertsInFlight == BagCardinality([op \in {o \in InFlight : o.fn = "insert_tx"} |-> ops[op]])

\* the model starts an insert only while a row is left of its MaxRows
RoomForInsert == Cardinality(rows) + InsertsInFlight < MaxRows

\* what a step that runs for conversation k wrote is written by k's flow
Attribute(k) ==
    persisted' = IF k \in Keys THEN [persisted EXCEPT ![k] = @ \cup (rows' \ rows)]
                 ELSE persisted

\* the running flow of conversation k is over
EndFlow(k) ==
    /\ accepted' = [accepted EXCEPT ![k] = NoPending]
    /\ persisted' = [persisted EXCEPT ![k] = {}]

\* a handler that awaits no storage operation returns
Returned(handler, k, input, raised, reply) ==
    last' = [handler |-> handler, key |-> k, was |-> conv[k], input |-> input,
             raised |-> raised, stored |-> rows' \ rows, reply |-> reply, op |-> NoOp,
             accepted |-> accepted[k], persisted |-> persisted[k] \cup (rows' \ rows)]

(***************************************************************************)
(* db_utils.py: the coroutines, as records of the bag ops.                 *)
(***************************************************************************)
\* insert_tx(user_id, category, amount, date_str, description) is called
InsertTx(from, user_id, category, amount, date_str, description) ==
    [NoOp EXCEPT !.fn = "insert_tx", !.pc = "acquire", !.from = from,
                 !.user_id = user_id, !.category = category, !.amount = amount,
                 !.date_str = date_str, !.description = description]

\* get_transactions(user_id, limit) is called
GetTransactions(from, user_id, limit) ==
    [NoOp EXCEPT !.fn = "get_transactions", !.pc = "acquire", !.from = from,
                 !.user_id = user_id, !.limit = limit]

\* get_summary(user_id, start_date) is called
GetSummary(from, user_id, start_date) ==
    [NoOp EXCEPT !.fn = "get_summary", !.pc = "acquire", !.from = from,
                 !.user_id = user_id, !.start_date = start_date]

\* init_db() is called
InitDb(from) == [NoOp EXCEPT !.fn = "init_db", !.pc = "acquire", !.from = from]

Start(op) == ops' = ops (+) SetToBag({op})

Replace(op, new) == ops' = (ops (-) SetToBag({op})) (+) SetToBag({new})

Remove(op) == ops' = ops (-) SetToBag({op})

\* a pool that hands out one connection more than maxconn
PoolExhaustedLate(n) == n > MaxConn

\* ThreadedConnectionPool.getconn with no idle connection left:
\* len(self._used) == self.maxconn raises PoolError("connection pool exhausted")
PoolExhausted(n) == n = MaxConn

\* the position of a coroutine once get_connection has returned
FirstStep(fn) ==
    CASE fn = "insert_tx" -> "select"
      [] fn = "get_transactions" -> "fetch"
      [] fn = "get_summary" -> "summary"
      [] OTHER -> "init"

\* SELECT COALESCE(MAX(id), 0) + 1 FROM transactions
NextId(rs) == IF rs = {} THEN 1 ELSE SetMax({r.id : r \in rs}) + 1

\* a table without the primary key
PrimaryKeyAny(rs, id) == TRUE

\* id INTEGER PRIMARY KEY: the INSERT of a row whose id is taken is refused
PrimaryKeyFree(rs, id) == \A r \in rs : r.id # id

\* an _insert that falls back to the epoch
DateObjEpoch(date_str) ==
    IF Strptime(date_str) = None THEN MkDate(1970, 1, 1) ELSE Get(Strptime(date_str))

\* _insert: date_obj is the parsed date_str, or today's date when strptime raises
DateObj(date_str) ==
    IF Strptime(date_str) = None THEN Today ELSE Get(Strptime(date_str))

\* the row INSERT INTO transactions (...) VALUES (...) writes for op
RowOf(op) ==
    [id |-> op.next_id, user_id |-> op.user_id, category |-> op.category,
     amount |-> ToReal(op.amount), date |-> DateObj(op.date_str),
     description |-> op.description]

\* ORDER BY date DESC, id ASC
OrderOldestIdFirst(r1, r2) == r1.date > r2.date \/ (r1.date = r2.date /\ r1.id < r2.id)

\* ORDER BY date DESC, id DESC
OrderBefore(r1, r2) == r1.date > r2.date \/ (r1.date = r2.date /\ r1.id > r2.id)

RECURSIVE Sorted(_)
Sorted(rs) ==
    IF rs = {} THEN <<>>
    ELSE LET first == CHOOSE r \in rs : \A o \in rs : ~OrderBefore(o, r)
         IN  <<first>> \o Sorted(rs \ {first})

\* the tuple _fetch builds of a row: (id, category, amount, str(date), description)
Listed(r) == <<r.id, r.category, r.amount, Isoformat(r.date), r.description>>

\* SELECT ... WHERE user_id = %s ORDER BY date DESC, id DESC LIMIT %s
ListRecent(rs, user_id, limit) ==
    LET mine == Sorted({r \in rs : r.user_id = user_id})
    IN  [i \in 1..(IF limit < Len(mine) THEN limit ELSE Len(mine)) |-> Listed(mine[i])]

\* a + b of two decimals
AddDec(a, b) ==
    LET e == IF a.e > b.e THEN a.e ELSE b.e
    IN  Normalise([m |-> a.m * 10 ^ (e - a.e) + b.m * 10 ^ (e - b.e), e |-> e])

\* SUM(amount) of the rows rs of one group: a REAL, as the column is
RECURSIVE SumAmounts(_)
SumAmounts(rs) ==
    IF rs = {} THEN [m |-> 0, e |-> 0]
    ELSE LET r == CHOOSE x \in rs : TRUE
         IN  ToReal(AddDec(r.amount, SumAmounts(rs \ {r})))

\* if start_date: None and the empty string select the query without a date
StartGiven(start_date) == start_date # None /\ Get(start_date) # <<>>

\* a get_summary that forgets its lower bound
InPeriodAlways(r, start_date) == TRUE

\* AND date >= %s, absent from the query when no start_date is given
InPeriod(r, start_date) ==
    IF StartGiven(start_date) THEN r.date >= Get(Strptime(Get(start_date))) ELSE TRUE

\* SELECT category, SUM(amount) as total ... WHERE user_id = %s [AND date >= %s]
\* GROUP BY category, as the list of (category, total) _fetch returns; the
\* order of the groups is not fixed, so the list is kept as a set
Summary(rs, user_id, start_date) ==
    LET mine == {r \in rs : r.user_id = user_id /\ InPeriod(r, start_date)}
    IN  {<<c, SumAmounts({r \in mine : r.category = c})>> : c \in {r.category : r \in mine}}

(***************************************************************************)
(* What the caller does when its db_utils coroutine returns or raises.     *)
(***************************************************************************)
\* a desc_handler that returns END whatever insert_tx did
DescNextEnds(raised) == "END"

\* a desc_handler that never returns END
DescNextStays(raised) == "DESC"

\* desc_handler after await insert_tx(...): reply "Saved", return END; an
\* exception leaves the handler before either, and the ConversationHandler
\* keeps the state of a handler that raised.
DescNext(raised) == IF raised = "none" THEN "END" ELSE "DESC"

DescReply(raised) == IF raised = "none" THEN MsgSaved ELSE ""

\* quick_cmd after await insert_tx(...)
QuickReply(raised) == IF raised = "none" THEN MsgSavedQuick ELSE ""

\* list_cmd after await db_utils.get_transactions(...)
ListReply(raised, result) ==
    IF raised # "none" THEN "" ELSE IF result = <<>> THEN MsgNoTx ELSE MsgListing

Resume(op, raised) ==
    LET h == op.from.handler
        k == op.from.key
    IN  /\ conv' = IF h = "desc_handler" THEN [conv EXCEPT ![k] = DescNext(raised)]
                   ELSE conv
        /\ IF h = "desc_handler" /\ DescNext(raised) = "END"
           THEN EndFlow(k)
           ELSE UNCHANGED <<accepted, persisted>>
        /\ last' = [handler   |-> IF h = "api" THEN op.fn ELSE h,
                    key       |-> k,
                    was       |-> op.from.was,
                    input     |-> op.from.input,
                    raised    |-> raised,
                    stored    |-> IF op.fn = "insert_tx" /\ raised = "none"
                                  THEN {r \in rows : r.id = op.next_id} ELSE {},
                    reply     |-> CASE h = "desc_handler" -> DescReply(raised)
                                    [] h = "quick_cmd" -> QuickReply(raised)
                                    [] h = "list_cmd" -> ListReply(raised, op.result)
                                    [] OTHER -> "",
                    op        |-> op,
                    accepted  |-> IF k \in Keys THEN accepted[k] ELSE NoPending,
                    persisted |-> IF k \in Keys THEN persisted[k] ELSE {}]

(***************************************************************************)
(* The steps of a db_utils coroutine.                                      *)
(***************************************************************************)
\* get_connection: conn = await loop.run_in_executor(None, pool_obj.getconn)
Acquire(op) ==
    /\ op \in InFlight
    /\ op.pc = "acquire"
    /\ IF PoolExhausted(used)
       THEN /\ Remove(op)
            /\ used' = used
            /\ Resume(op, "PoolError")
       ELSE /\ Replace(op, [op EXCEPT !.pc = FirstStep(op.fn)])
            /\ used' = used + 1
            /\ UNCHANGED <<conv, last, accepted, persisted>>
    /\ UNCHANGED <<rows, user_data, lastCommit, flows>>

\* _insert, first statement: next_id = SELECT COALESCE(MAX(id), 0) + 1
Select(op) ==
    /\ op \in InFlight
    /\ op.pc = "select"
    /\ Replace(op, [op EXCEPT !.pc = "insert", !.next_id = NextId(rows)])
    /\ UNCHANGED <<rows, used, conv, user_data, last, accepted, persisted, lastCommit, flows>>

\* _insert, second statement and conn.commit(): the row is written, or the
\* primary key refuses it and psycopg2 raises UniqueViolation
Insert(op) ==
    /\ op \in InFlight
    /\ op.pc = "insert"
    /\ IF PrimaryKeyFree(rows, op.next_id)
       THEN /\ rows' = rows \cup {RowOf(op)}
            /\ lastCommit' = Some(RowOf(op))
            /\ Replace(op, [op EXCEPT !.pc = "release"])
       ELSE /\ rows' = rows
            /\ lastCommit' = lastCommit
            /\ Replace(op, [op EXCEPT !.pc = "release", !.raised = "UniqueViolation"])
    /\ Attribute(op.from.key)
    /\ UNCHANGED <<used, conv, user_data, last, accepted, flows>>

\* _fetch: the rows of the SELECT; a negative LIMIT is refused by the server
Fetch(op) ==
    /\ op \in InFlight
    /\ op.pc = "fetch"
    /\ IF op.limit < 0
       THEN Replace(op, [op EXCEPT !.pc = "release", !.raised = "DataError"])
       ELSE Replace(op, [op EXCEPT !.pc = "release",
                                   !.result = ListRecent(rows, op.user_id, op.limit),
                                   !.seen = lastCommit])
    /\ UNCHANGED <<rows, used, conv, user_data, last, accepted, persisted, lastCommit, flows>>

\* get_summary._fetch: the groups of the SELECT; a start_date that is no date
\* is refused by the server
Summarise(op) ==
    /\ op \in InFlight
    /\ op.pc = "summary"
    /\ IF StartGiven(op.start_date) /\ Strptime(Get(op.start_date)) = None
       THEN Replace(op, [op EXCEPT !.pc = "release", !.raised = "DataError"])
       ELSE Replace(op, [op EXCEPT !.pc = "release",
                                   !.totals = Summary(rows, op.user_id, op.start_date)])
    /\ UNCHANGED <<rows, used, conv, user_data, last, accepted, persisted, lastCommit, flows>>

\* _init: CREATE TABLE IF NOT EXISTS transactions, commit
InitExec(op) ==
    /\ op \in InFlight
    /\ op.pc = "init"
    /\ Replace(op, [op EXCEPT !.pc = "release"])
    /\ UNCHANGED <<rows, used, conv, user_data, last, accepted, persisted, lastCommit, flows>>

\* a return_connection that keeps the connection checked out
PutConnLeak(n) == n

\* pool_obj.putconn(conn): one connection fewer is checked out
PutConn(n) == n - 1

\* finally: return_connection(conn); then the coroutine returns or re-raises
\* and its caller goes on
Release(op) ==
    /\ op \in InFlight
    /\ op.pc = "release"
    /\ Remove(op)
    /\ used' = PutConn(used)
    /\ Resume(op, op.raised)
    /\ UNCHANGED <<rows, user_data, lastCommit, flows>>

(***************************************************************************)
(* bot.py: the handlers.  Updates of one conversation are handled one      *)
(* after the other; handlers of different conversations may overlap at     *)
(* their awaits.                                                           *)
(***************************************************************************)
\* the parsers on the texts the model sends, computed once
Stripped == [t \in CategoryTexts \cup DescTexts |-> Strip(t)]

AmountOf == [t \in AmountTexts |-> ParseAmount(Strip(t))]

DateOf == [t \in DateTexts |-> DateutilParse(Strip(t))]

QuickOf ==
    (TxtQuickToday :> QuickParse(TxtQuickToday))
        @@ (TxtQuickNoAmount :> QuickParse(TxtQuickNoAmount))
        @@ (TxtQuickCommas :> QuickParse(TxtQuickCommas))
        @@ (TxtQuickFull :> QuickParse(TxtQuickFull))

LimitOf == (TxtList :> ListLimit(TxtList)) @@ (TxtList1 :> ListLimit(TxtList1))

Origin(handler, k, input) ==
    [handler |-> handler, key |-> k, was |-> conv[k], input |-> input]

\* the arguments desc_handler reads from context.user_data
PendingOf(k) == user_data[UserOf(k)]

\* /add, the entry point of the ConversationHandler
add_cmd(k) ==
    /\ conv[k] = "END"
    /\ ~Busy(k)
    /\ flows < MaxFlows
    /\ flows' = flows + 1
    /\ rows' = rows
    /\ conv' = [conv EXCEPT ![k] = "CAT"]
    /\ Returned("add_cmd", k, <<>>, "none", MsgEnterCategory)
    /\ UNCHANGED <<used, ops, user_data, accepted, persisted, lastCommit>>

cat_handler(k, text) ==
    /\ conv[k] = "CAT"
    /\ ~Busy(k)
    /\ rows' = rows
    /\ user_data' = [user_data EXCEPT ![UserOf(k)].category = Some(Stripped[text])]
    /\ accepted' = [accepted EXCEPT ![k].category = Some(Stripped[text])]
    /\ conv' = [conv EXCEPT ![k] = "AMT"]
    /\ Attribute(k)
    /\ Returned("cat_handler", k, text, "none", MsgEnterAmount)
    /\ UNCHANGED <<used, ops, lastCommit, flows>>

\* an amt_handler that moves on to the date whatever the amount
amt_handler_moves_on(k, text) ==
    /\ conv[k] = "AMT"
    /\ ~Busy(k)
    /\ rows' = rows
    /\ IF AmountOf[text] = None
       THEN /\ conv' = [conv EXCEPT ![k] = "DTE"]
            /\ Returned("amt_handler", k, text, "none", MsgBadAmount)
            /\ UNCHANGED <<user_data, accepted>>
       ELSE /\ user_data' = [user_data EXCEPT ![UserOf(k)].amount = AmountOf[text]]
            /\ accepted' = [accepted EXCEPT ![k].amount = AmountOf[text]]
            /\ conv' = [conv EXCEPT ![k] = "DTE"]
            /\ Returned("amt_handler", k, text, "none", MsgEnterDate)
    /\ Attribute(k)
    /\ UNCHANGED <<used, ops, lastCommit, flows>>

amt_handler(k, text) ==
    /\ conv[k] = "AMT"
    /\ ~Busy(k)
    /\ rows' = rows
    /\ IF AmountOf[text] = None
       THEN /\ Returned("amt_handler", k, text, "none", MsgBadAmount)
            /\ UNCHANGED <<conv, user_data, accepted>>
       ELSE /\ user_data' = [user_data EXCEPT ![UserOf(k)].amount = AmountOf[text]]
            /\ accepted' = [accepted EXCEPT ![k].amount = AmountOf[text]]
            /\ conv' = [conv EXCEPT ![k] = "DTE"]
            /\ Returned("amt_handler", k, text, "none", MsgEnterDate)
    /\ Attribute(k)
    /\ UNCHANGED <<used, ops, lastCommit, flows>>

date_handler(k, text) ==
    /\ conv[k] = "DTE"
    /\ ~Busy(k)
    /\ rows' = rows
    /\ IF DateOf[text] = None
       THEN /\ Returned("date_handler", k, text, "none", MsgBadDate)
            /\ UNCHANGED <<conv, user_data, accepted>>
       ELSE /\ user_data' = [user_data EXCEPT
                                ![UserOf(k)].date = Some(Isoformat(Get(DateOf[text])))]
            /\ accepted' = [accepted EXCEPT ![k].date = Some(Isoformat(Get(DateOf[text])))]
            /\ conv' = [conv EXCEPT ![k] = "DESC"]
            /\ Returned("date_handler", k, text, "none", MsgEnterDesc)
    /\ Attribute(k)
    /\ UNCHANGED <<used, ops, lastCommit, flows>>

\* desc_handler up to its await: the arguments of insert_tx are read from
\* context.user_data (a missing key raises KeyError)
desc_handler(k, text) ==
    /\ conv[k] = "DESC"
    /\ ~Busy(k)
    /\ LET pend == PendingOf(k)
       IN  IF pend.category = None \/ pend.amount = None \/ pend.date = None
           THEN /\ rows' = rows
                /\ Returned("desc_handler", k, text, "KeyError", "")
                /\ UNCHANGED ops
           ELSE /\ BagCardinality(ops) < MaxOps
                /\ RoomForInsert
                /\ Start(InsertTx(Origin("desc_handler", k, text), UserOf(k),
                                  Get(pend.category), Get(pend.amount), Get(pend.date),
                                  Some(Stripped[text])))
                /\ UNCHANGED <<rows, last>>
    /\ UNCHANGED <<used, conv, user_data, accepted, persisted, lastCommit, flows>>

\* /cancel, the fallback of the ConversationHandler
cancel(k) ==
    /\ conv[k] \in NonTerminal
    /\ ~Busy(k)
    /\ rows' = rows
    /\ conv' = [conv EXCEPT ![k] = "END"]
    /\ Returned("cancel", k, <<>>, "none", MsgCancelled)
    /\ EndFlow(k)
    /\ UNCHANGED <<used, ops, user_data, lastCommit, flows>>

\* /quick up to its await
quick_cmd(k, text) ==
    /\ ~Busy(k)
    /\ \E q \in {QuickOf[text]} :
           CASE q.kind = "usage" ->
                  /\ rows' = rows
                  /\ Returned("quick_cmd", k, text, "none", MsgUsage)
                  /\ UNCHANGED ops
             [] q.kind = "raise" ->
                  /\ rows' = rows
                  /\ Returned("quick_cmd", k, text, "ValueError", "")
                  /\ UNCHANGED ops
             [] OTHER ->
                  /\ BagCardinality(ops) < MaxOps
                  /\ RoomForInsert
                  /\ Start(InsertTx(Origin("quick_cmd", k, text), UserOf(k), q.category,
                                    q.amount, q.date_str, q.description))
                  /\ UNCHANGED <<rows, last>>
    /\ UNCHANGED <<used, conv, user_data, accepted, persisted, lastCommit, flows>>

\* /list up to its await
list_cmd(k, text) ==
    /\ ~Busy(k)
    /\ BagCardinality(ops) < MaxOps
    /\ Start(GetTransactions(Origin("list_cmd", k, text), UserOf(k), LimitOf[text]))
    /\ UNCHANGED <<rows, used, conv, user_data, last, accepted, persisted, lastCommit, flows>>

(***************************************************************************)
(* db_utils.py called by any caller.                                       *)
(***************************************************************************)
Api == [handler |-> "api", key |-> <<>>, was |-> "none", input |-> <<>>]

call_insert_tx(user_id, category, amount, date_str, description) ==
    /\ BagCardinality(ops) < MaxOps
    /\ RoomForInsert
    /\ Start(InsertTx(Api, user_id, category, amount, date_str, description))
    /\ UNCHANGED <<rows, used, conv, user_data, last, accepted, persisted, lastCommit, flows>>

call_get_transactions(user_id, limit, cap) ==
    /\ BagCardinality(ops) < cap
    /\ Start(GetTransactions(Api, user_id, limit))
    /\ UNCHANGED <<rows, used, conv, user_data, last, accepted, persisted, lastCommit, flows>>

call_get_summary(user_id, start_date, cap) ==
    /\ BagCardinality(ops) < cap
    /\ Start(GetSummary(Api, user_id, start_date))
    /\ UNCHANGED <<rows, used, conv, user_data, last, accepted, persisted, lastCommit, flows>>

call_init_db(cap) ==
    /\ BagCardinality(ops) < cap
    /\ Start(InitDb(Api))
    /\ UNCHANGED <<rows, used, conv, user_data, last, accepted, persisted, lastCommit, flows>>

(***************************************************************************)
(* The specifications.                                                     *)
(***************************************************************************)
\* the /add conversations of the bot
Next ==
    \/ \E k \in Keys : add_cmd(k)
    \/ \E k \in Keys, text \in CategoryTexts : cat_handler(k, text)
    \/ \E k \in Keys, text \in AmountTexts : amt_handler(k, text)
    \/ \E k \in Keys, text \in DateTexts : date_handler(k, text)
    \/ \E k \in Keys, text \in DescTexts : desc_handler(k, text)
    \/ \E k \in Keys : cancel(k)
    \/ \E op \in InFlight : Acquire(op)
    \/ \E op \in InFlight : Select(op)
    \/ \E op \in InFlight : Insert(op)
    \/ \E op \in InFlight : Release(op)

Spec == Init /\ [][Next]_vars

\* /quick and /list
NextQuick ==
    \/ \E k \in Keys, text \in QuickTexts : quick_cmd(k, text)
    \/ \E k \in Keys, text \in ListTexts : list_cmd(k, text)
    \/ \E op \in InFlight : Acquire(op)
    \/ \E op \in InFlight : Select(op)
    \/ \E op \in InFlight : Insert(op)
    \/ \E op \in InFlight : Fetch(op)
    \/ \E op \in InFlight : Release(op)

SpecQuick == Init /\ [][NextQuick]_vars

\* the arguments the callers of SpecStore pass to insert_tx
StoreDates == {TxtNotADate, TxtJan16}

StoreCategory == Strip(TxtFood)

StoreAmount == Get(ParseAmount(TxtRs500))

StoreLimits == {1}

\* db_utils.py under callers that overlap: insert_tx and get_transactions
NextStore ==
    \/ \E u \in Users, d \in StoreDates :
          call_insert_tx(u, StoreCategory, StoreAmount, d, None)
    \/ \E u \in Users, n \in StoreLimits : call_get_transactions(u, n, MaxOps)
    \/ \E op \in InFlight : Acquire(op)
    \/ \E op \in InFlight : Select(op)
    \/ \E op \in InFlight : Insert(op)
    \/ \E op \in InFlight : Fetch(op)
    \/ \E op \in InFlight : Release(op)

SpecStore == Init /\ [][NextStore]_vars

\* the arguments the callers of SpecSummary pass: user 1 has rows of two
\* categories and two dates, user 2 a row of the first category and the later
\* date
SummaryInserts ==
    {<<1, Strip(TxtFood), TxtJan14>>, <<1, Strip(TxtFood), TxtJan16>>,
     <<1, Strip(TxtPetrol), TxtJan16>>, <<2, Strip(TxtFood), TxtJan16>>}

SummaryStarts == {None, Some(TxtJan16), Some(TxtNotADate)}

\* insert_tx and get_summary under callers that overlap
NextSummary ==
    \/ \E a \in SummaryInserts : call_insert_tx(a[1], a[2], StoreAmount, a[3], None)
    \/ \E sd \in SummaryStarts : call_get_summary(1, sd, MaxOps)
    \/ \E op \in InFlight : Acquire(op)
    \/ \E op \in InFlight : Select(op)
    \/ \E op \in InFlight : Insert(op)
    \/ \E op \in InFlight : Summarise(op)
    \/ \E op \in InFlight : Release(op)

SpecSummary == Init /\ [][NextSummary]_vars

\* the limits the callers of SpecPool pass: the default, and one the server
\* refuses (as /list -1 passes)
PoolLimits == {DefaultLimit, 0 - DefaultLimit}

\* the pool under more callers than it has connections
NextPool ==
    \/ \E n \in PoolLimits : call_get_transactions(1, n, MaxCallers)
    \/ call_init_db(MaxCallers)
    \/ \E op \in InFlight : Acquire(op)
    \/ \E op \in InFlight : Fetch(op)
    \/ \E op \in InFlight : InitExec(op)
    \/ \E op \in InFlight : Release(op)

SpecPool == Init /\ [][NextPool]_vars

(***************************************************************************)
(* The claims.                                                             *)
(***************************************************************************)
\* an insert_tx that has returned or raised, as last records it
InsertReturned == last.handler = "insert_tx"

\* the row a refused insert collided with belongs to another user
LostToOtherUser ==
    /\ InsertReturned
    /\ last.raised = "UniqueViolation"
    /\ \E r \in rows : r.id = last.op.next_id /\ r.user_id # last.op.user_id

\* C1: of two insert operations for two different users whose executions
\* interleave (each reads the current max id, then writes its row), neither
\* is lost: no insert is refused because the other took its id.
C1_NeitherInsertLost == ~LostToOtherUser

C1_Collision == LostToOtherUser /\ Cardinality(rows) = 1

\* the insert_tx calls desc_handler has made and that have not returned
DescInserts == {op \in InFlight : op.from.handler = "desc_handler"}

\* the arguments of op are the fields accepted in conversation k
CarriesAccepted(op, k) ==
    /\ accepted[k].category = Some(op.category)
    /\ accepted[k].amount = Some(op.amount)
    /\ accepted[k].date = Some(op.date_str)

\* C2: the pending fields are scoped to one conversation instance: the insert
\* made at the description step of a conversation carries only the category,
\* amount and date accepted in that same conversation.
C2_PendingScoped == \A op \in DescInserts : CarriesAccepted(op, op.from.key)

C2_Leak ==
    \E op \in DescInserts :
        /\ ~CarriesAccepted(op, op.from.key)
        /\ \E k \in Keys : k # op.from.key /\ UserOf(k) = op.user_id
                           /\ accepted[k].category = Some(op.category)

\* C3: cancel, from any non-terminal state of the flow, ends the conversation
\* and the flow it ends has persisted zero rows.
C3_CancelPersistsNothing ==
    last.handler = "cancel" =>
        /\ last.was \in NonTerminal
        /\ conv[last.key] = "END"
        /\ last.persisted = {}
        /\ last.stored = {}

C3_CancelAfterFailedInsert ==
    /\ last.handler = "cancel"
    /\ last.was = "DESC"
    /\ last.accepted.date # None
    /\ rows # {}
    /\ conv[last.key] = "END"

\* the flow of last.key has just reached Complete
FlowCompleted == last.handler = "desc_handler" /\ last.raised = "none"

\* C4: a run of the flow that reaches Complete has persisted exactly one
\* row, whose category, amount, date and description are the accepted
\* category, amount and date and the description text of that run.
C4_OneRowOfAcceptedFields ==
    FlowCompleted =>
        /\ Cardinality(last.persisted) = 1
        /\ \A r \in last.persisted :
              /\ Some(r.category) = last.accepted.category
              /\ Some(r.amount) = last.accepted.amount
              /\ Some(Isoformat(r.date)) = last.accepted.date
              /\ r.description = Some(Strip(last.input))

C4_ForeignCategory ==
    /\ FlowCompleted
    /\ \E r \in last.persisted : Some(r.category) # last.accepted.category

\* C5: when the insert made at the description step fails, the conversation
\* does not go to Complete and no confirmation is sent; it goes to Complete,
\* with the confirmation, only when the insert has stored its row.
C5_FailedInsertNotComplete ==
    last.handler = "desc_handler" =>
        /\ last.raised # "none" => conv[last.key] = "DESC" /\ last.reply # MsgSaved
        /\ conv[last.key] = "END" => last.raised = "none" /\ Cardinality(last.stored) = 1
        /\ last.reply = MsgSaved => conv[last.key] = "END"

C5_InsertFailed ==
    /\ last.handler = "desc_handler"
    /\ last.raised = "UniqueViolation"
    /\ conv[last.key] = "DESC"
    /\ last.reply = ""

\* an insert_tx called with a date_str strptime refuses has returned or raised
UnparsableReturned == InsertReturned /\ Strptime(last.op.date_str) = None

\* C6 as stated: insert called with a dateText that cannot be parsed fails
\* with a validation error and stores no row.
C6_UnparsableDateFails ==
    UnparsableReturned => last.raised = "ValidationError" /\ last.stored = {}

\* C6: insert called with a date_str that cannot be parsed raises no
\* validation error; unless the primary key refuses it, it stores one row
\* dated today.
C6_UnparsableDateStoredAsToday ==
    UnparsableReturned =>
        /\ last.raised \in {"none", "UniqueViolation"}
        /\ last.raised = "none" =>
              /\ Cardinality(last.stored) = 1
              /\ \A r \in last.stored : r.date = Today /\ r \in rows

C6_StoredToday ==
    /\ UnparsableReturned
    /\ last.raised = "none"
    /\ \E r \in last.stored : r.date = Today

\* C7 as stated: an operation that starts while the 10 connections are
\* checked out blocks and then proceeds; its acquisition does not fail.
C7_AcquisitionNeverFails == last.raised # "PoolError"

\* C7: an operation that starts while the 10 connections are checked out
\* does not wait: its acquisition fails at once with PoolError, it gets no
\* connection and runs no statement; never more than 10 are checked out.
C7_AcquisitionFailsAtOnce ==
    /\ used \in 0..MaxConn
    /\ last.raised = "PoolError" =>
          /\ used = MaxConn
          /\ last.op.pc = "acquire"
          /\ last.op.result = <<>>

C7_Saturated ==
    /\ last.raised = "PoolError"
    /\ used = MaxConn
    /\ BagCardinality(ops) = MaxConn

\* no two stored rows share an id
UniqueIds(rs) == \A r1, r2 \in rs : r1.id = r2.id => r1 = r2

\* C8: no two stored transactions have the same id, in every interleaving
\* of concurrent inserts; an insert whose id is taken stores nothing and
\* changes no stored row.
C8_IdsUnique ==
    [][/\ UniqueIds(rows')
       /\ rows \subseteq rows'
       /\ (\E op \in BagToSet(ops') \ InFlight : op.raised = "UniqueViolation")
             => rows' = rows]_vars

C8_Refused ==
    \E op \in InFlight :
        /\ op.raised = "UniqueViolation"
        /\ Cardinality(rows) = 1
        /\ RowOf(op) \notin rows

\* get_transactions(user_id, 1) calls that fetched right after an insert for
\* the same user was committed
ListedAfterInsert ==
    {op \in InFlight : /\ op.fn = "get_transactions"
                       /\ op.pc = "release"
                       /\ op.raised = "none"
                       /\ op.limit = 1
                       /\ op.seen # None
                       /\ Get(op.seen).user_id = op.user_id}

\* C9 as stated: after any earlier inserts, a successful insert followed
\* immediately by listRecent(userId, limit=1) returns the inserted record.
C9_ListsInserted == \A op \in ListedAfterInsert : op.result = <<Listed(Get(op.seen))>>

\* C9: a successful insert followed immediately by listRecent(userId,
\* limit=1) returns the inserted record when no stored row of that user has
\* a later date than the inserted one.
C9_ListsInsertedIfLatestDate ==
    \A op \in ListedAfterInsert :
        (\A r \in rows : r.user_id = op.user_id => r.date <= Get(op.seen).date)
            => op.result = <<Listed(Get(op.seen))>>

C9_SecondOfSameDate ==
    \E op \in ListedAfterInsert :
        /\ Cardinality({r \in rows : r.user_id = op.user_id
                                      /\ r.date = Get(op.seen).date}) = 2
        /\ op.result = <<Listed(Get(op.seen))>>

\* C10: a quick-entry command has one of two outcomes: rejected with the
\* usage message and no row stored when the payload does not match the
\* grammar; otherwise exactly one row stored, dated as the rest of the line
\* says or today.
C10_TwoOutcomes ==
    last.handler = "quick_cmd" =>
        IF QuickMatch(Strip(RemoveFirst(last.input, CmdQuick))) = None
        THEN last.reply = MsgUsage /\ last.stored = {}
        ELSE /\ last.raised = "none"
             /\ Cardinality(last.stored) = 1
             /\ \A r \in last.stored :
                   r.date = IF last.input = TxtQuickFull THEN MkDate(2025, 1, 16)
                            ELSE Today

C10_AmountOfCommas ==
    /\ last.handler = "quick_cmd"
    /\ last.input = TxtQuickCommas
    /\ last.raised = "ValueError"
    /\ last.stored = {}
    /\ last.reply # MsgUsage

\* the get_summary calls whose query has run in this step
JustSummarised ==
    {op \in BagToSet(ops') \ InFlight : op.fn = "get_summary" /\ op.pc = "release"
                                         /\ op.raised = "none"}

\* the rows of user_id dated on or after start (all of them when start is None)
Counted(user_id, start) ==
    {r \in rows : /\ r.user_id = user_id
                  /\ start # None => r.date >= Get(Strptime(Get(start)))}

\* the amounts of rs added up, exactly
RECURSIVE ExactSum(_)
ExactSum(rs) ==
    IF rs = {} THEN [m |-> 0, e |-> 0]
    ELSE LET r == CHOOSE x \in rs : TRUE
         IN  AddDec(r.amount, ExactSum(rs \ {r}))

Holding == {op \in InFlight : op.pc # "acquire"}

\* how many there are, each counted as often as it is in flight
NumHolding == BagCardinality([op \in Holding |-> ops[op]])

FlowSteps ==
    {<<"END", "CAT", "add_cmd">>, <<"CAT", "AMT", "cat_handler">>,
     <<"AMT", "DTE", "amt_handler">>, <<"DTE", "DESC", "date_handler">>,
     <<"DESC", "END", "desc_handler">>}
        \cup {<<s, "END", "cancel">> : s \in NonTerminal}

\* l records an amt_handler or date_handler call whose text was rejected
RejectedText(l) ==
    \/ l.handler = "amt_handler" /\ ParseAmount(Strip(l.input)) = None
    \/ l.handler = "date_handler" /\ DateutilParse(Strip(l.input)) = None

\* l records an amt_handler or date_handler call whose text was accepted
AcceptedText(l) ==
    \/ l.handler = "amt_handler" /\ ParseAmount(Strip(l.input)) # None
    \/ l.handler = "date_handler" /\ DateutilParse(Strip(l.input)) # None

\* C13: the flow only takes the transitions start to AwaitingCategory,
\* AwaitingCategory to AwaitingAmount, AwaitingAmount to AwaitingDate on an
\* accepted amount, AwaitingDate to AwaitingDescription on an accepted date,
\* AwaitingDescription to Complete, and any non-terminal state to the end on
\* cancel; a rejected amount or date leaves the state and the pending fields
\* as they were and stores nothing, and while the flow awaits an amount or a
\* date a rejected text is handled again, however many came before.
C13_FlowTransitions ==
    [][/\ \A k \in Keys :
             conv'[k] # conv[k] =>
                 /\ last'.key = k
                 /\ <<conv[k], conv'[k], last'.handler>> \in FlowSteps
                 /\ last'.handler \in {"amt_handler", "date_handler"} => AcceptedText(last')
       /\ (last' # last /\ RejectedText(last')) =>
             /\ conv' = conv
             /\ user_data' = user_data
             /\ accepted' = accepted
             /\ rows' = rows
       /\ \A k \in Keys :
             /\ (conv[k] = "AMT" /\ ~Busy(k)) => ENABLED amt_handler(k, TxtAbc)
             /\ (conv[k] = "DTE" /\ ~Busy(k)) => ENABLED date_handler(k, TxtNotADate)]_vars

C13_RejectedAgain ==
    /\ last.handler = "amt_handler"
    /\ last.reply = MsgBadAmount
    /\ conv[last.key] = "AMT"
    /\ last.accepted.category # None
    /\ user_data[UserOf(last.key)].amount # None
    /\ rows # {}

====
